---- MODULE Spec2Model ----
(***************************************************************************)
(* Model of ppt-helper: main.py streams a language-model response,         *)
(* validates it against the pydantic Schema of ppt.py, and create_ppt      *)
(* writes the theme colours and fonts into the template's theme XML.       *)
(* ppt.py run as a script validates its built-in sample theme instead.     *)
(***************************************************************************)
EXTENDS Integers, Sequences, FiniteSets, TLC

\* Bounds of the model.
MaxChunks == 2   \* most chunks one response stream delivers
MaxBroken == 1   \* most colour-scheme slots that differ from the default theme, in Themes
                 \* (SlotThemes, of specification SpecSlots, has no such bound)

----------------------------------------------------------------------------
\* JSON values.  An object member is Some(v) or absent (None*).

Some(v) == [present |-> TRUE, val |-> v]
NoneStr == [present |-> FALSE, val |-> ""]
NoneInt == [present |-> FALSE, val |-> 0]
NoneArr == [present |-> FALSE, val |-> <<>>]

\* {"color": c, "rationale": r}
RawColor(c, r) == [color |-> Some(c), rationale |-> Some(r)]
\* {"name": n, "size": s, "rationale": r}
RawFont(n, s, r) == [name |-> Some(n), size |-> Some(s), rationale |-> Some(r)]

\* ThemeColors' fields, in declaration order (ppt.py 37-46).
ColorFields == <<"dark", "light", "accent1", "accent2", "accent3", "accent4",
                 "accent5", "accent6", "hyperlink", "followed_hyperlink">>
ColorFieldSet == {ColorFields[i] : i \in 1..Len(ColorFields)}

\* The dictionary ppt.py's __main__ block passes to Schema.model_validate:
\* its two fonts carry a name and a rationale and no size.
SampleColors ==
    [dark               |-> RawColor(<<0, 0, 0>>, "Black text"),
     light              |-> RawColor(<<255, 255, 255>>, "White background"),
     accent1            |-> RawColor(<<0, 0, 255>>, "Blue accent"),
     accent2            |-> RawColor(<<255, 0, 0>>, "Red accent"),
     accent3            |-> RawColor(<<0, 255, 0>>, "Green accent"),
     accent4            |-> RawColor(<<255, 255, 0>>, "Yellow accent"),
     accent5            |-> RawColor(<<0, 255, 255>>, "Cyan accent"),
     accent6            |-> RawColor(<<255, 0, 255>>, "Magenta accent"),
     hyperlink          |-> RawColor(<<0, 0, 255>>, "Blue hyperlink"),
     followed_hyperlink |-> RawColor(<<128, 0, 128>>, "Purple followed hyperlink")]

SampleFonts ==
    [header |-> [name |-> Some("Comic Sans MS"), size |-> NoneInt,
                 rationale |-> Some("Arial for headers")],
     body   |-> [name |-> Some("Comic Sans MS"), size |-> NoneInt,
                 rationale |-> Some("Arial for body text")]]

SampleTheme ==
    [background |-> RawColor(<<255, 255, 255>>, "White background"),
     theme      |-> [colors |-> SampleColors, fonts |-> SampleFonts]]

----------------------------------------------------------------------------
\* The pydantic models of ppt.py.  Each validator returns [ok, value].

\* The default of ColorChoice.color: the one-element tuple (RGBType,), which
\* holds a type and no integer.
DefaultColor == [isDefault |-> TRUE, rgb |-> <<>>]
GivenColor(c) == [isDefault |-> FALSE, rgb |-> c]

\* ColorChoice: `color: tuple[int, int, int] = RGBType,` makes the field a
\* three-integer tuple with a default (so it may be absent) and leaves RGBType's
\* 0..255 constraint unused; rationale is a required string.
ValidateColorChoice(raw) ==
    [ok    |-> /\ raw.rationale.present
               /\ (raw.color.present => Len(raw.color.val) = 3),
     value |-> [color     |-> IF raw.color.present THEN GivenColor(raw.color.val)
                              ELSE DefaultColor,
                rationale |-> raw.rationale.val]]

\* FontChoice: name, size and rationale are all required.
ValidateFontChoice(raw) ==
    [ok    |-> raw.name.present /\ raw.size.present /\ raw.rationale.present,
     value |-> [name |-> raw.name.val, size |-> raw.size.val,
                rationale |-> raw.rationale.val]]

ValidateThemeFonts(raw) ==
    LET header == ValidateFontChoice(raw.header)
        body   == ValidateFontChoice(raw.body)
    IN [ok    |-> header.ok /\ body.ok,
        value |-> [header |-> header.value, body |-> body.value]]

ValidateThemeColors(raw) ==
    LET field == [f \in ColorFieldSet |-> ValidateColorChoice(raw[f])]
    IN [ok    |-> \A f \in ColorFieldSet : field[f].ok,
        value |-> [f \in ColorFieldSet |-> field[f].value]]

ValidateTheme(raw) ==
    LET colors == ValidateThemeColors(raw.colors)
        fonts  == ValidateThemeFonts(raw.fonts)
    IN [ok    |-> colors.ok /\ fonts.ok,
        value |-> [colors |-> colors.value, fonts |-> fonts.value]]

\* Schema.model_validate
ValidateSchema(raw) ==
    LET background == ValidateColorChoice(raw.background)
        theme      == ValidateTheme(raw.theme)
    IN [ok    |-> background.ok /\ theme.ok,
        value |-> [background |-> background.value, theme |-> theme.value]]

----------------------------------------------------------------------------
\* The response text.  A text is a sequence of fragments; the JSON document of
\* a response is written as three of them,
\*   {"background": <bg>,   "theme": {"colors": <colors>,   "fonts": <fonts>}}
\* and a chunk of the stream is a (possibly empty) run of fragments.

Serialize(doc) ==
    << [part |-> "background", val |-> doc.background],
       [part |-> "colors",     val |-> doc.theme.colors],
       [part |-> "fonts",      val |-> doc.theme.fonts] >>

\* The JSON decoding inside model_validate_json: a text that is not the three
\* fragments in order (truncated, repeated, reordered) is not a JSON document.
JsonLoads(text) ==
    IF /\ Len(text) = 3
       /\ text[1].part = "background"
       /\ text[2].part = "colors"
       /\ text[3].part = "fonts"
    THEN [ok  |-> TRUE,
          doc |-> [background |-> text[1].val,
                   theme      |-> [colors |-> text[2].val, fonts |-> text[3].val]]]
    ELSE [ok |-> FALSE, doc |-> SampleTheme]

\* Schema.model_validate_json(full_str_response): invalid JSON and a document
\* that breaks the schema both raise ValidationError.
model_validate_json(text) ==
    LET json  == JsonLoads(text)
        model == ValidateSchema(json.doc)
    IN [ok |-> json.ok /\ model.ok, value |-> model.value]

\* Responses the model may send: one that fits the schema, and that one with a
\* single member changed.
WellFormed ==
    [SampleTheme EXCEPT !.theme.fonts =
        [header |-> RawFont("Georgia", 44, "Serif headers"),
         body   |-> RawFont("Verdana", 18, "Readable body")]]

VariedFields == {"background", "dark", "accent3", "followed_hyperlink"}

ColorInputs ==
    {NoneArr, Some(<<1, 2>>), Some(<<256, 0, 0>>), Some(<<-1, 0, 16>>), Some(<<18, 52, 86>>)}

WithColor(doc, f, c) ==
    IF f = "background" THEN [doc EXCEPT !.background.color = c]
    ELSE [doc EXCEPT !.theme.colors[f].color = c]

Responses ==
    {WellFormed}
    \cup {WithColor(WellFormed, f, c) : f \in VariedFields, c \in ColorInputs}
    \cup {[WellFormed EXCEPT !.theme.fonts = SampleFonts],
          [WellFormed EXCEPT !.theme.colors["accent1"].rationale = NoneStr]}

\* The texts a stream may carry: a whole response, a response cut short, nothing.
Texts ==
    {Serialize(d) : d \in Responses}
    \cup {SubSeq(Serialize(WellFormed), 1, 2), << >>}

\* The ways to deliver text t in exactly n chunks (empty chunks included).
Chunkings(t, n) ==
    {[i \in 1..n |-> SubSeq(t, c[i - 1] + 1, c[i])] :
        c \in {d \in [0..n -> 0..Len(t)] :
                  /\ d[0] = 0
                  /\ d[n] = Len(t)
                  /\ \A i \in 1..n : d[i - 1] <= d[i]}}

Streams == UNION {Chunkings(t, n) : t \in Texts, n \in 0..MaxChunks}

RECURSIVE Concat(_)
\* "".join(chunks)
Concat(chunks) ==
    IF chunks = << >> THEN << >> ELSE Head(chunks) \o Concat(Tail(chunks))

----------------------------------------------------------------------------
\* rgb_tuple_to_hex.  A hex string is a sequence of characters.

HexDigit == <<"0", "1", "2", "3", "4", "5", "6", "7",
              "8", "9", "A", "B", "C", "D", "E", "F">>

RECURSIVE ToHex(_)
\* format(n, "X") for n >= 0
ToHex(n) ==
    IF n < 16 THEN <<HexDigit[n + 1]>>
    ELSE ToHex(n \div 16) \o <<HexDigit[(n % 16) + 1]>>

\* format(n, "02X"): zero-padded to width two, the sign counted in the width,
\* and never truncated.
Format02X(n) ==
    IF n < 0 THEN <<"-">> \o ToHex(-n)
    ELSE IF n < 16 THEN <<"0">> \o ToHex(n)
    ELSE ToHex(n)

rgb_tuple_to_hex(rgb_tuple) ==
    Format02X(rgb_tuple[1]) \o Format02X(rgb_tuple[2]) \o Format02X(rgb_tuple[3])

----------------------------------------------------------------------------
\* The theme part of the template.  theme_xml is the parsed tree: whether its
\* root is a:theme (a CT_OfficeStyleSheet), the first a:<slot> child of
\* a:themeElements/a:clrScheme for each slot name, and the a:fontScheme.
\* A slot element is absent, holds no a:srgbClr (an a:sysClr instead), or holds
\* an a:srgbClr with attribute val.

SchemeSlots == {"dk1", "lt1", "dk2", "lt2", "accent1", "accent2", "accent3",
                "accent4", "accent5", "accent6", "hlink", "folHlink"}

Slot(kind, val) == [kind |-> kind, val |-> val]
Latin(typeface) == [present |-> TRUE, typeface |-> typeface]
NoLatin == [present |-> FALSE, typeface |-> ""]

\* The theme of the template Presentation() opens when the library ships its
\* stock default.pptx.
DefaultTheme ==
    [stylesheet |-> TRUE,
     clr |-> [dk1      |-> Slot("sysClr", << >>),
              lt1      |-> Slot("sysClr", << >>),
              dk2      |-> Slot("srgbClr", <<"1", "F", "4", "9", "7", "D">>),
              lt2      |-> Slot("srgbClr", <<"E", "E", "E", "C", "E", "1">>),
              accent1  |-> Slot("srgbClr", <<"4", "F", "8", "1", "B", "D">>),
              accent2  |-> Slot("srgbClr", <<"C", "0", "5", "0", "4", "D">>),
              accent3  |-> Slot("srgbClr", <<"9", "B", "B", "B", "5", "9">>),
              accent4  |-> Slot("srgbClr", <<"8", "0", "6", "4", "A", "2">>),
              accent5  |-> Slot("srgbClr", <<"4", "B", "A", "C", "C", "6">>),
              accent6  |-> Slot("srgbClr", <<"F", "7", "9", "6", "4", "6">>),
              hlink    |-> Slot("srgbClr", <<"0", "0", "0", "0", "F", "F">>),
              folHlink |-> Slot("srgbClr", <<"8", "0", "0", "0", "8", "0">>)],
     fontScheme |-> [present |-> TRUE, major |-> Latin("Calibri"), minor |-> Latin("Calibri")]]

\* A slot of the default theme changed: removed, or its colour child swapped
\* for the other kind.
Altered(slot, how) ==
    IF how = "absent" THEN Slot("absent", << >>)
    ELSE IF slot.kind = "srgbClr" THEN Slot("sysClr", << >>)
    ELSE Slot("srgbClr", <<"0", "0", "0", "0", "0", "0">>)

FontSchemes ==
    {DefaultTheme.fontScheme,
     [present |-> TRUE, major |-> NoLatin, minor |-> Latin("Calibri")],
     [present |-> FALSE, major |-> NoLatin, minor |-> NoLatin]}

\* A part whose root is not a:theme.
NotATheme ==
    [stylesheet |-> FALSE,
     clr        |-> [s \in SchemeSlots |-> Slot("absent", << >>)],
     fontScheme |-> [present |-> FALSE, major |-> NoLatin, minor |-> NoLatin]]

\* The theme parts create_ppt may find: the default theme with at most
\* MaxBroken colour slots altered and any of the font schemes, or no theme.
Themes ==
    {[stylesheet |-> TRUE,
      clr        |-> [s \in SchemeSlots |->
                        IF s \in DOMAIN how THEN Altered(DefaultTheme.clr[s], how[s])
                        ELSE DefaultTheme.clr[s]],
      fontScheme |-> fs] :
        how \in UNION {[S -> {"absent", "swapped"}] :
                          S \in {T \in SUBSET SchemeSlots : Cardinality(T) <= MaxBroken}},
        fs \in FontSchemes}
    \cup {NotATheme}

\* The ten slots create_ppt writes, and every theme they can make: each slot
\* independently whole (as in the default theme), without its srgbClr child,
\* or absent, with any of the given font schemes.  Every subset of the ten slots is
\* the failing set of some of these themes.
LoopKeys == {"dk2", "lt2", "accent1", "accent2", "accent3", "accent4",
             "accent5", "accent6", "hlink", "folHlink"}

SlotThemes(fontSchemes) ==
    {[stylesheet |-> TRUE,
      clr        |-> [s \in SchemeSlots |->
                        IF s \in LoopKeys /\ how[s] # "whole"
                        THEN Altered(DefaultTheme.clr[s], how[s])
                        ELSE DefaultTheme.clr[s]],
      fontScheme |-> fs] :
        how \in [LoopKeys -> {"whole", "swapped", "absent"}],
        fs \in fontSchemes}

----------------------------------------------------------------------------
\* ppt.py's functions.

\* to_pptx_format with the sources of dk2 and lt2 exchanged.
to_pptx_format_swapped(colors) ==
    << [key |-> "dk2",      color |-> rgb_tuple_to_hex(colors["light"].color.rgb)],
       [key |-> "lt2",      color |-> rgb_tuple_to_hex(colors["dark"].color.rgb)],
       [key |-> "accent1",  color |-> rgb_tuple_to_hex(colors["accent1"].color.rgb)],
       [key |-> "accent2",  color |-> rgb_tuple_to_hex(colors["accent2"].color.rgb)],
       [key |-> "accent3",  color |-> rgb_tuple_to_hex(colors["accent3"].color.rgb)],
       [key |-> "accent4",  color |-> rgb_tuple_to_hex(colors["accent4"].color.rgb)],
       [key |-> "accent5",  color |-> rgb_tuple_to_hex(colors["accent5"].color.rgb)],
       [key |-> "accent6",  color |-> rgb_tuple_to_hex(colors["accent6"].color.rgb)],
       [key |-> "hlink",    color |-> rgb_tuple_to_hex(colors["hyperlink"].color.rgb)],
       [key |-> "folHlink", color |-> rgb_tuple_to_hex(colors["followed_hyperlink"].color.rgb)] >>

\* ThemeColors.to_pptx_format: the dictionary, as its items in insertion order.
to_pptx_format(colors) ==
    << [key |-> "dk2",      color |-> rgb_tuple_to_hex(colors["dark"].color.rgb)],
       [key |-> "lt2",      color |-> rgb_tuple_to_hex(colors["light"].color.rgb)],
       [key |-> "accent1",  color |-> rgb_tuple_to_hex(colors["accent1"].color.rgb)],
       [key |-> "accent2",  color |-> rgb_tuple_to_hex(colors["accent2"].color.rgb)],
       [key |-> "accent3",  color |-> rgb_tuple_to_hex(colors["accent3"].color.rgb)],
       [key |-> "accent4",  color |-> rgb_tuple_to_hex(colors["accent4"].color.rgb)],
       [key |-> "accent5",  color |-> rgb_tuple_to_hex(colors["accent5"].color.rgb)],
       [key |-> "accent6",  color |-> rgb_tuple_to_hex(colors["accent6"].color.rgb)],
       [key |-> "hlink",    color |-> rgb_tuple_to_hex(colors["hyperlink"].color.rgb)],
       [key |-> "folHlink", color |-> rgb_tuple_to_hex(colors["followed_hyperlink"].color.rgb)] >>

\* get_color_scheme_elem: the slot element, or ValueError when the xpath
\* finds none.
get_color_scheme_elem(theme_xml, key) ==
    [raised |-> theme_xml.clr[key].kind = "absent",
     msg    |-> <<key, " not found in theme">>,
     elem   |-> theme_xml.clr[key]]

\* modify_secondary_color: [raised, msg, xml].
modify_secondary_color(theme_xml, key, color) ==
    LET got == get_color_scheme_elem(theme_xml, key) IN
    IF got.raised THEN [raised |-> TRUE, msg |-> got.msg, xml |-> theme_xml]
    ELSE IF got.elem.kind # "srgbClr"
    THEN [raised |-> TRUE, msg |-> <<"srgbClr is not a _Element">>, xml |-> theme_xml]
    ELSE [raised |-> FALSE, msg |-> << >>,
          xml    |-> [theme_xml EXCEPT !.clr[key] = Slot("srgbClr", color)]]

RECURSIVE ColorLoop_StopsAtFirst(_, _, _)
\* The loop with the try around it instead of inside it: the first ValueError
\* is printed and ends the loop.
ColorLoop_StopsAtFirst(theme_xml, printed, items) ==
    IF items = << >> THEN [xml |-> theme_xml, printed |-> printed]
    ELSE LET r == modify_secondary_color(theme_xml, Head(items).key, Head(items).color) IN
         IF r.raised THEN [xml |-> theme_xml, printed |-> Append(printed, r.msg)]
         ELSE ColorLoop_StopsAtFirst(r.xml, printed, Tail(items))

RECURSIVE ColorLoop(_, _, _)
\* create_ppt's loop over test_dict.items(): a ValueError of one slot is printed
\* and the loop goes on.  [xml, printed]
ColorLoop(theme_xml, printed, items) ==
    IF items = << >> THEN [xml |-> theme_xml, printed |-> printed]
    ELSE LET r == modify_secondary_color(theme_xml, Head(items).key, Head(items).color) IN
         ColorLoop(r.xml,
                   IF r.raised THEN Append(printed, r.msg) ELSE printed,
                   Tail(items))

\* set_font: the first a:latin under the font element, when both exist.
set_font(latin, font_name) ==
    IF latin.present THEN Latin(font_name) ELSE latin

\* set_fonts that skips a missing a:fontScheme the way set_font skips a
\* missing a:latin.
set_fonts_lenient(theme_xml, header_font, body_font) ==
    [raised |-> FALSE,
     xml    |-> IF ~theme_xml.fontScheme.present THEN theme_xml
                ELSE [theme_xml EXCEPT
                        !.fontScheme.major = set_font(@, header_font),
                        !.fontScheme.minor = set_font(@, body_font)]]

\* set_fonts: ValueError when there is no a:fontScheme.  [raised, xml]
set_fonts(theme_xml, header_font, body_font) ==
    IF ~theme_xml.fontScheme.present THEN [raised |-> TRUE, xml |-> theme_xml]
    ELSE [raised |-> FALSE,
          xml    |-> [theme_xml EXCEPT
                        !.fontScheme.major = set_font(@, header_font),
                        !.fontScheme.minor = set_font(@, body_font)]]

\* RGBColor(r, g, b) of the document library accepts integers 0..255 only.
RGBColorAccepts(rgb) == \A i \in 1..3 : rgb[i] \in 0..255

NoFile == [present |-> FALSE, background |-> << >>, theme |-> NotATheme]
Outcome(exc, stage, xml, printed, saved) ==
    [exc |-> exc, stage |-> stage, theme_xml |-> xml, printed |-> printed, saved |-> saved]

\* create_ppt(response_schema, output_path) on a template whose theme part is
\* `template`: the exception it ends with ("none" when it returns), the last
\* stage it entered, the parsed theme as it leaves it, what it printed, and
\* the file it saved.
create_ppt(response_schema, template) ==
    LET bg     == response_schema.background.color
        colors == response_schema.theme.colors
        fonts  == response_schema.theme.fonts
    IN
    IF bg.isDefault
    THEN Outcome("TypeError", "background", NotATheme, << >>, NoFile)
    ELSE IF ~RGBColorAccepts(bg.rgb)
    THEN Outcome("ValueError: RGBColor() takes three integer values 0-255",
                 "background", NotATheme, << >>, NoFile)
    ELSE IF ~template.stylesheet
    THEN Outcome("ValueError: Theme part is not a CT_OfficeStyleSheet",
                 "parse_xml", template, << >>, NoFile)
    ELSE IF \E f \in ColorFieldSet : colors[f].color.isDefault
    THEN Outcome("TypeError", "to_pptx_format", template, << >>, NoFile)
    ELSE LET loop == ColorLoop(template, << >>, to_pptx_format(colors))
             sf   == set_fonts(loop.xml, fonts.header.name, fonts.body.name)
         IN IF sf.raised
            THEN Outcome("ValueError: Font scheme is not a _Element",
                         "set_fonts", loop.xml, loop.printed, NoFile)
            ELSE Outcome("none", "save", sf.xml, loop.printed,
                         [present |-> TRUE, background |-> bg.rgb, theme |-> sf.xml])

----------------------------------------------------------------------------
\* The two scripts as a state machine.

VARIABLES
    script,             \* "main" (main.py) or "ppt" (ppt.py run as a script)
    pc,                 \* "stream", "validate", "create_ppt", "done", "raised"
    stream,             \* the chunks the generator yields, in order
    k,                  \* how many of them the for loop has consumed
    stdout,             \* what main.py has echoed
    full_str_response,  \* main.py's accumulator
    response_schema,    \* the validated Schema, once validation has returned
    calls,              \* how many times create_ppt has been called
    template,           \* the theme part create_ppt read from the template
    result,             \* create_ppt's Outcome
    exc                 \* the exception that ended the run, "none" otherwise

vars == <<script, pc, stream, k, stdout, full_str_response, response_schema,
          calls, template, result, exc>>

NoSchema == [present |-> FALSE, val |-> ValidateSchema(SampleTheme).value]
NotCalled == Outcome("none", "not called", NotATheme, << >>, NoFile)

\* main.py after line 55 (the generator exists, nothing consumed), or ppt.py
\* entering its __main__ block.
Init ==
    /\ script \in {"main", "ppt"}
    /\ IF script = "main"
       THEN pc = "stream" /\ stream \in Streams
       ELSE pc = "validate" /\ stream = << >>
    /\ k = 0
    /\ stdout = << >>
    /\ full_str_response = << >>
    /\ response_schema = NoSchema
    /\ calls = 0
    /\ template = NotATheme
    /\ result = NotCalled
    /\ exc = "none"

\* The iteration with the accumulator's operands the wrong way round.
ReadChunk_Prepend ==
    /\ pc = "stream"
    /\ k < Len(stream)
    /\ k' = k + 1
    /\ stdout' = stdout \o stream[k + 1]
    /\ full_str_response' = stream[k + 1] \o full_str_response
    /\ UNCHANGED <<script, pc, stream, response_schema, calls, template, result, exc>>

\* main.py 57-59: one iteration of `for chunk in stream`.
ReadChunk ==
    /\ pc = "stream"
    /\ k < Len(stream)
    /\ k' = k + 1
    /\ stdout' = stdout \o stream[k + 1]
    /\ full_str_response' = full_str_response \o stream[k + 1]
    /\ UNCHANGED <<script, pc, stream, response_schema, calls, template, result, exc>>

\* The generator raises instead of yielding (the request or the connection
\* fails): the exception ends main.py.
StreamRaises ==
    /\ pc = "stream"
    /\ pc' = "raised"
    /\ exc' = "ResponseError"
    /\ UNCHANGED <<script, stream, k, stdout, full_str_response, response_schema,
                   calls, template, result>>

\* The generator is exhausted: the for loop ends.
StreamEnds ==
    /\ pc = "stream"
    /\ k = Len(stream)
    /\ pc' = "validate"
    /\ UNCHANGED <<script, stream, k, stdout, full_str_response, response_schema,
                   calls, template, result, exc>>

\* Validation whose failure is not raised (model_construct in place of
\* model_validate): the run goes on to create_ppt either way.
Validate_Unchecked ==
    /\ pc = "validate"
    /\ LET v == IF script = "main" THEN model_validate_json(full_str_response)
                ELSE ValidateSchema(SampleTheme)
       IN /\ response_schema' = Some(v.value)
          /\ pc' = "create_ppt"
          /\ exc' = exc
    /\ UNCHANGED <<script, stream, k, stdout, full_str_response, calls, template, result>>

\* main.py 61: Schema.model_validate_json(full_str_response);
\* ppt.py 137-196: Schema.model_validate(<the sample dictionary>).
Validate ==
    /\ pc = "validate"
    /\ LET v == IF script = "main" THEN model_validate_json(full_str_response)
                ELSE ValidateSchema(SampleTheme)
       IN IF v.ok
          THEN /\ response_schema' = Some(v.value)
               /\ pc' = "create_ppt"
               /\ exc' = exc
          ELSE /\ response_schema' = response_schema
               /\ pc' = "raised"
               /\ exc' = "ValidationError"
    /\ UNCHANGED <<script, stream, k, stdout, full_str_response, calls, template, result>>

\* main.py 63 / ppt.py 198: create_ppt(response_schema, <path>), the template
\* holding one of the theme parts `themes`.
CreatePptOn(themes) ==
    /\ pc = "create_ppt"
    /\ \E t \in themes :
          /\ template' = t
          /\ result' = create_ppt(response_schema.val, t)
    /\ calls' = calls + 1
    /\ exc' = result'.exc
    /\ pc' = IF result'.exc = "none" THEN "done" ELSE "raised"
    /\ UNCHANGED <<script, stream, k, stdout, full_str_response, response_schema>>

\* create_ppt on whatever theme part the installed template holds.
CreatePpt == CreatePptOn(Themes)

Next == ReadChunk \/ StreamRaises \/ StreamEnds \/ Validate \/ CreatePpt

Spec == Init /\ [][Next]_vars

\* main.py on one well-formed response delivered whole, the template's colour
\* scheme ranging over every combination of whole, childless and absent slots.
InitSlots ==
    /\ script = "main"
    /\ pc = "stream"
    /\ stream = << Serialize(WellFormed) >>
    /\ k = 0
    /\ stdout = << >>
    /\ full_str_response = << >>
    /\ response_schema = NoSchema
    /\ calls = 0
    /\ template = NotATheme
    /\ result = NotCalled
    /\ exc = "none"

CreatePptAnySlots == CreatePptOn(SlotThemes(FontSchemes))

NextSlots == ReadChunk \/ StreamRaises \/ StreamEnds \/ Validate \/ CreatePptAnySlots

SpecSlots == InitSlots /\ [][NextSlots]_vars

----------------------------------------------------------------------------
\* Properties.

\* The colour-scheme slot each ThemeColors field is meant for.
SlotSource ==
    [dk2 |-> "dark", lt2 |-> "light", accent1 |-> "accent1", accent2 |-> "accent2",
     accent3 |-> "accent3", accent4 |-> "accent4", accent5 |-> "accent5",
     accent6 |-> "accent6", hlink |-> "hyperlink", folHlink |-> "followed_hyperlink"]
WrittenSlots == DOMAIN SlotSource
KeyOrder == <<"dk2", "lt2", "accent1", "accent2", "accent3", "accent4",
              "accent5", "accent6", "hlink", "folHlink">>

HexChars == {HexDigit[i] : i \in 1..16}
IsHex6(v) == Len(v) = 6 /\ \A i \in 1..6 : v[i] \in HexChars

\* create_ppt has been called and got as far as the colour loop.
LoopRan == calls = 1 /\ result.stage \in {"set_fonts", "save"}

\* C1: in a run of main.py, create_ppt is called at most once, only after the
\* whole stream has been consumed and the accumulated text has passed
\* validation; validation itself happens only after the whole stream; a file is
\* written only by that call, and a run ended by the stream or by validation
\* has called create_ppt zero times and written nothing.
C1_Order ==
    script = "main" =>
        /\ calls <= 1
        /\ (response_schema.present \/ exc = "ValidationError") => k = Len(stream)
        /\ calls = 1 =>
              /\ k = Len(stream)
              /\ response_schema.present
              /\ model_validate_json(full_str_response).ok
        /\ result.saved.present => calls = 1
        /\ exc \in {"ResponseError", "ValidationError"} =>
              calls = 0 /\ ~result.saved.present

C1_Witness ==
    /\ script = "main"
    /\ pc = "done"
    /\ Len(stream) = 2
    /\ calls = 1
    /\ result.saved.present

\* C3: after the k-th chunk the accumulator is the concatenation of the first k
\* chunks in arrival order and equals what was echoed; validation is handed
\* the concatenation of all the chunks.
C3_Accumulate ==
    script = "main" =>
        /\ full_str_response = Concat(SubSeq(stream, 1, k))
        /\ stdout = full_str_response
        /\ pc = "validate" => full_str_response = Concat(stream)
        /\ response_schema.present =>
              LET v == model_validate_json(Concat(stream))
              IN v.ok /\ response_schema.val = v.value
        /\ exc = "ValidationError" => ~model_validate_json(Concat(stream)).ok

C3_Witness ==
    /\ script = "main"
    /\ pc = "create_ppt"
    /\ k = 2
    /\ stream[1] # << >>
    /\ stream[2] # << >>

\* The slots whose shape check fails on theme t, in the loop's order.
FailingKeys(t) == SelectSeq(KeyOrder, LAMBDA key : t.clr[key].kind # "srgbClr")

\* create_ppt was called with colours the document library and the formatter
\* take (no exception left it before the theme part was looked at).
ChecksReached ==
    calls = 1 /\ result.stage \in {"parse_xml", "set_fonts", "save"}

\* C2 as stated: whichever guarding check fails, create_ppt is not aborted and
\* the save still happens.
C2_AllChecksContinue ==
    ChecksReached => result.exc = "none" /\ result.saved.present

\* C2, amended: only the two colour-slot checks print and continue.  A theme
\* part that is no CT_OfficeStyleSheet ends create_ppt with ValueError before
\* any write; a missing fontScheme ends it with ValueError after the colour
\* loop; in both cases nothing is saved.  With a stylesheet and a fontScheme,
\* create_ppt returns and saves however many colour slots fail.
C2_OnlyColourChecksContinue ==
    ChecksReached =>
        /\ ~template.stylesheet =>
              /\ result.exc = "ValueError: Theme part is not a CT_OfficeStyleSheet"
              /\ result.printed = << >>
              /\ ~result.saved.present
        /\ (template.stylesheet /\ ~template.fontScheme.present) =>
              /\ result.exc = "ValueError: Font scheme is not a _Element"
              /\ Len(result.printed) = Len(FailingKeys(template))
              /\ ~result.saved.present
        /\ (template.stylesheet /\ template.fontScheme.present) =>
              /\ result.exc = "none"
              /\ Len(result.printed) = Len(FailingKeys(template))
              /\ result.saved.present
              /\ pc = "done"

C2_Witness ==
    /\ ChecksReached
    /\ template.stylesheet
    /\ ~template.fontScheme.present
    /\ Len(result.printed) >= 1
    /\ pc = "raised"

\* C4 as stated: every colour of a validated response is three integers in
\* 0..255 and every srgbClr val create_ppt writes is six uppercase hex digits.
C4_ValidatedColoursInRange ==
    response_schema.present =>
        /\ \A c \in {response_schema.val.background.color}
                    \cup {response_schema.val.theme.colors[f].color : f \in ColorFieldSet} :
              /\ ~c.isDefault
              /\ Len(c.rgb) = 3
              /\ \A i \in 1..3 : c.rgb[i] \in 0..255
        /\ LoopRan =>
              \A s \in WrittenSlots :
                  template.clr[s].kind = "srgbClr" => IsHex6(result.theme_xml.clr[s].val)

\* C5 as stated: ppt.py run as a script gets its sample theme through
\* Schema.model_validate and reaches create_ppt.
C5_SampleAccepted ==
    (script = "ppt" /\ pc # "validate") =>
        /\ response_schema.present
        /\ exc # "ValidationError"

\* C6: once the colour loop has run, every written slot that had an srgbClr
\* child holds the hex of its own source colour, every other element of the
\* colour scheme (dk1, lt1, the slots whose check failed) is as the template
\* had it, and the saved theme has the same colour scheme.
C6_SlotsAndFrame ==
    LoopRan =>
        /\ \A s \in SchemeSlots :
              IF s \in WrittenSlots /\ template.clr[s].kind = "srgbClr"
              THEN result.theme_xml.clr[s] =
                      Slot("srgbClr",
                           rgb_tuple_to_hex(
                               response_schema.val.theme.colors[SlotSource[s]].color.rgb))
              ELSE result.theme_xml.clr[s] = template.clr[s]
        /\ result.saved.present => result.saved.theme.clr = result.theme_xml.clr

C6_Witness ==
    /\ LoopRan
    /\ result.saved.present
    /\ template.clr["dk1"].kind = "srgbClr"
    /\ result.saved.theme.clr["dk1"] = template.clr["dk1"]
    /\ result.saved.theme.clr["dk2"].val = <<"0", "0", "0", "0", "0", "0">>
    /\ result.saved.theme.clr["lt2"].val = <<"F", "F", "F", "F", "F", "F">>
    /\ result.saved.theme.clr["accent3"].val = <<"1", "2", "3", "4", "5", "6">>

\* C7 (under SpecSlots, where the failing slots are every subset of the ten):
\* with a stylesheet theme and colours the formatter takes, whatever subset of
\* the ten slots fails, create_ppt prints exactly one error per failing slot
\* (in the loop's order), writes every other slot, before and after the
\* failing ones, leaves the failing ones as they were, and goes on to
\* set_fonts.
C7_FailuresIndependent ==
    (/\ calls = 1
     /\ template.stylesheet
     /\ result.stage \notin {"background", "to_pptx_format"}) =>
        LET failing == FailingKeys(template)
            items   == to_pptx_format(response_schema.val.theme.colors)
        IN
        /\ result.stage \in {"set_fonts", "save"}
        /\ Len(result.printed) = Len(failing)
        /\ \A i \in 1..Len(failing) :
              result.printed[i] =
                  IF template.clr[failing[i]].kind = "absent"
                  THEN <<failing[i], " not found in theme">>
                  ELSE <<"srgbClr is not a _Element">>
        /\ \A i \in 1..Len(KeyOrder) :
              template.clr[KeyOrder[i]].kind = "srgbClr" =>
                  result.theme_xml.clr[KeyOrder[i]].val = items[i].color
        /\ \A i \in 1..Len(failing) :
              result.theme_xml.clr[failing[i]] = template.clr[failing[i]]

C7_Witness ==
    /\ calls = 1
    /\ result.stage = "save"
    /\ template.clr["dk2"].kind = "absent"
    /\ template.clr["accent3"].kind = "sysClr"
    /\ template.clr["accent4"].kind = "absent"
    /\ template.clr["folHlink"].kind = "sysClr"
    /\ result.printed = << <<"dk2", " not found in theme">>,
                           <<"srgbClr is not a _Element">>,
                           <<"accent4", " not found in theme">>,
                           <<"srgbClr is not a _Element">> >>
    /\ result.theme_xml.clr["lt2"].val = <<"F", "F", "F", "F", "F", "F">>
    /\ result.theme_xml.clr["accent5"].val = <<"0", "0", "F", "F", "F", "F">>
    /\ result.theme_xml.clr["hlink"].kind = "srgbClr"
    /\ template.clr["hlink"].kind = "srgbClr"
    /\ template.fontScheme # result.theme_xml.fontScheme

====
